---- MODULE Spec2Model ----
(***************************************************************************)
(* A model of src/js/app.js (mermaid-filter): the line parser, the diagram *)
(* model builder, the reachability index, the visibility state with its    *)
(* five handlers, and the filtered text renderer.                           *)
(*                                                                         *)
(* Text is modelled character by character: a line is a sequence of       *)
(* one-character strings and a text is a sequence of lines (the result of *)
(* split(/\n/); out.join('\n') is its inverse because no line holds a      *)
(* line break).  Every regular expression of the source is an operator     *)
(* over such sequences.                                                     *)
(***************************************************************************)
EXTENDS Integers, Sequences, FiniteSets, TLC

VARIABLES
    text,      \* diagramText: the fetched source, split into lines (line 259)
    model,     \* const model = parseDiagram(diagramText) (line 260)
    nodes,     \* const nodes = parseNodesFromMMD(diagramText): the sidebar ids (line 261)
    out,       \* id -> children (line 266)
    inn,       \* id -> parents (line 267)
    state,     \* the visibility Map id -> boolean (line 297)
    cb,        \* the checked flag of each sidebar checkbox (lines 66-69)
    handed,    \* diagramEl.textContent as rerender last set it (line 299)
    pending,   \* the mermaid.run() promises not yet settled (line 303)
    pc,        \* the step of the parse / render / parse-again pipeline
    rendered,  \* the text buildFilteredMMD returned in that pipeline
    model2,    \* the model parsed from rendered
    bmap,      \* bfs: which adjacency map it walks, "none" before it starts
    bq,        \* bfs: const q (line 284)
    bvisited,  \* bfs: const visited, in insertion order (line 283)
    benq,      \* bfs: every id pushed to q so far, in order (lines 284, 290)
    bpops,     \* bfs: the number of q.shift() calls so far (line 287)
    bstart     \* bfs: startId

vars == <<text, model, nodes, out, inn, state, cb, handed, pending,
          pc, rendered, model2, bmap, bq, bvisited, benq, bpops, bstart>>

(***************************************************************************)
(* Characters and the character classes of the regular expressions.        *)
(***************************************************************************)
LowerSeq == <<"a","b","c","d","e","f","g","h","i","j","k","l","m",
              "n","o","p","q","r","s","t","u","v","w","x","y","z">>
UpperSeq == <<"A","B","C","D","E","F","G","H","I","J","K","L","M",
              "N","O","P","Q","R","S","T","U","V","W","X","Y","Z">>
DigitSeq == <<"0","1","2","3","4","5","6","7","8","9">>

Range(s) == {s[i] : i \in DOMAIN s}

Letters == Range(LowerSeq) \cup Range(UpperSeq)
Digits == Range(DigitSeq)

\* \s
IsSpace(c) == c \in {" ", "\t"}
\* [A-Za-z]
IsLetter(c) == c \in Letters
\* \w
IsWord(c) == c \in Letters \/ c \in Digits \/ c = "_"
\* [\w-]
IsIdChar(c) == IsWord(c) \/ c = "-"
\* [<>=.-]
IsOpChar(c) == c \in {"<", ">", "=", ".", "-"}

\* the /i flag: compare characters after lower-casing
ToLower(c) ==
    IF c \in Range(UpperSeq)
    THEN LowerSeq[CHOOSE i \in DOMAIN UpperSeq : UpperSeq[i] = c]
    ELSE c

Min(S) == CHOOSE x \in S : \A y \in S : x <= y
Max(S) == CHOOSE x \in S : \A y \in S : x >= y

\* first index >= i of s that is past the end or whose character is no space
SkipSpace(s, i) ==
    Min({j \in i..(Len(s) + 1) : j = Len(s) + 1 \/ ~IsSpace(s[j])})
\* first index >= i past the run of [\w-] characters starting at i
SkipId(s, i) ==
    Min({j \in i..(Len(s) + 1) : j = Len(s) + 1 \/ ~IsIdChar(s[j])})
\* first index >= i past the run of [<>=.-] characters starting at i
SkipOp(s, i) ==
    Min({j \in i..(Len(s) + 1) : j = Len(s) + 1 \/ ~IsOpChar(s[j])})

\* String.prototype.slice(a, b) with 1-based inclusive bounds lo..hi
Slice(s, lo, hi) == IF lo > hi THEN <<>> ELSE SubSeq(s, lo, hi)

\* String.prototype.trim
Trim(s) ==
    LET keep == {j \in DOMAIN s : ~IsSpace(s[j])}
    IN  IF keep = {} THEN <<>> ELSE SubSeq(s, Min(keep), Max(keep))

\* String.prototype.startsWith / endsWith
StartsWith(s, p) == Len(p) <= Len(s) /\ SubSeq(s, 1, Len(p)) = p
EndsWith(s, p) ==
    Len(p) <= Len(s) /\ SubSeq(s, Len(s) - Len(p) + 1, Len(s)) = p

\* p occurs in s at index i
OccursAt(s, p, i) ==
    i + Len(p) - 1 <= Len(s) /\ SubSeq(s, i, i + Len(p) - 1) = p
\* String.prototype.includes and a regular expression that is a literal
Includes(s, p) == \E i \in 1..(Len(s) + 1) : OccursAt(s, p, i)

\* the word w (given in lower case) stands at index i of s, case-insensitively
WordAtCI(s, w, i) ==
    /\ i + Len(w) - 1 <= Len(s)
    /\ \A k \in 1..Len(w) : ToLower(s[i + k - 1]) = w[k]

\* \b right before index i (i > 1, s[i-1] a word character)
BoundaryAt(s, i) == i > Len(s) \/ ~IsWord(s[i])

\* rest.split('%%')[0]
BeforeComment(s) ==
    LET hits == {i \in 1..Len(s) : OccursAt(s, <<"%", "%">>, i)}
    IN  IF hits = {} THEN s ELSE Slice(s, 1, Min(hits) - 1)

(***************************************************************************)
(* parseNodeLine                                                            *)
(***************************************************************************)
\* the catalog of delimiter pairs after pairs.sort by open length descending
pairs == <<
    [open |-> <<"(", "(">>, close |-> <<")", ")">>],
    [open |-> <<"[", "[">>, close |-> <<"]", "]">>],
    [open |-> <<"{", "{">>, close |-> <<"}", "}">>],
    [open |-> <<"(", "[">>, close |-> <<"]", ")">>],
    [open |-> <<"[", "(">>, close |-> <<")", "]">>],
    [open |-> <<"[", "/">>, close |-> <<"/", "]">>],
    [open |-> <<"[", "\\">>, close |-> <<"\\", "]">>],
    [open |-> <<"[", "/">>, close |-> <<"\\", "]">>],
    [open |-> <<"[", "\\">>, close |-> <<"/", "]">>],
    [open |-> <<"(">>, close |-> <<")">>],
    [open |-> <<">">>, close |-> <<"]">>],
    [open |-> <<"[">>, close |-> <<"]">>],
    [open |-> <<"{">>, close |-> <<"}">>] >>

NoNode == [ok |-> FALSE, id |-> <<>>, label |-> <<>>, open |-> <<>>, close |-> <<>>]

\* for (const p of pairs) if (rest.startsWith(p.open) && rest.endsWith(p.close))
MatchPairs(id, rest) ==
    LET hits == {k \in DOMAIN pairs :
                    StartsWith(rest, pairs[k].open) /\ EndsWith(rest, pairs[k].close)}
    IN  IF hits = {} THEN NoNode
        ELSE LET p == pairs[Min(hits)]
             IN  [ok |-> TRUE, id |-> id,
                  label |-> Trim(Slice(rest, Len(p.open) + 1, Len(rest) - Len(p.close))),
                  open |-> p.open, close |-> p.close]

\* /^\s*([A-Za-z][\w-]*)\s*(.*)$/ then the pair catalog
parseNodeLine(line) ==
    LET i0 == SkipSpace(line, 1)
    IN  IF i0 > Len(line) \/ ~IsLetter(line[i0]) THEN NoNode
        ELSE LET i1 == SkipId(line, i0 + 1)
                 i2 == SkipSpace(line, i1)
                 rest == Trim(BeforeComment(Slice(line, i2, Len(line))))
             IN  IF rest = <<>> THEN NoNode
                 ELSE MatchPairs(SubSeq(line, i0, i1 - 1), rest)

(***************************************************************************)
(* The regular expressions of parseDiagram and parseNodesFromMMD           *)
(***************************************************************************)
W_flowchart == <<"f","l","o","w","c","h","a","r","t">>
W_subgraph == <<"s","u","b","g","r","a","p","h">>
W_classdef == <<"c","l","a","s","s","d","e","f">>
W_class == <<"c","l","a","s","s">>
W_end == <<"e","n","d">>
FrontMatterMark == <<"-","-","-">>

\* /^\s*flowchart\b/i
flowchartRegex(line) ==
    LET i0 == SkipSpace(line, 1)
    IN  WordAtCI(line, W_flowchart, i0) /\ BoundaryAt(line, i0 + Len(W_flowchart))

\* /^\s*subgraph\b(.*)$/i : ok, and the captured rest of the line
subgraphHeaderRegex(line) ==
    LET i0 == SkipSpace(line, 1)
        i1 == i0 + Len(W_subgraph)
    IN  IF WordAtCI(line, W_subgraph, i0) /\ BoundaryAt(line, i1)
        THEN [ok |-> TRUE, rest |-> Slice(line, i1, Len(line))]
        ELSE [ok |-> FALSE, rest |-> <<>>]

\* /^\s*classDef\s+([A-Za-z][\w-]*)\s+(.+)$/i
classDefRegex(line) ==
    LET i0 == SkipSpace(line, 1)
        i1 == i0 + Len(W_classdef)
    IN  /\ WordAtCI(line, W_classdef, i0)
        /\ i1 <= Len(line) /\ IsSpace(line[i1])
        /\ LET i2 == SkipSpace(line, i1)
           IN  /\ i2 <= Len(line) /\ IsLetter(line[i2])
               /\ LET i3 == SkipId(line, i2 + 1)
                  IN  i3 + 1 <= Len(line) /\ IsSpace(line[i3])

\* /^\s*class\s+(\S.*?)\s+([A-Za-z][\w-]*)\s*$/i : ok, idsPart, className
classAssignRegex(line) ==
    LET i0 == SkipSpace(line, 1)
        i1 == i0 + Len(W_class)
        no == [ok |-> FALSE, idsPart |-> <<>>, className |-> <<>>]
    IN  IF ~(WordAtCI(line, W_class, i0) /\ i1 <= Len(line) /\ IsSpace(line[i1]))
        THEN no
        ELSE LET i2 == SkipSpace(line, i1)
                 e == Max({j \in DOMAIN line : ~IsSpace(line[j])})
                 ls == Max({j \in 1..e : IsSpace(line[j])}) + 1
             IN  IF /\ i2 <= Len(line)
                    /\ ls > i2
                    /\ IsLetter(line[ls])
                    /\ \A j \in ls..e : IsIdChar(line[j])
                 THEN [ok |-> TRUE,
                       idsPart |-> Trim(SubSeq(line, i2, ls - 1)),
                       className |-> SubSeq(line, ls, e)]
                 ELSE no

\* /^\s*end\s*$/i
endRegex(line) ==
    LET i0 == SkipSpace(line, 1)
    IN  WordAtCI(line, W_end, i0) /\ SkipSpace(line, i0 + Len(W_end)) > Len(line)

\* /^\s*%%/
commentRegex(line) == OccursAt(line, <<"%", "%">>, SkipSpace(line, 1))

\* the part of edgeRegex after the first id, tried from index g
EdgeTail(line, g) ==
    LET j1 == SkipSpace(line, g)
        j2 == SkipOp(line, j1)
        j3 == SkipSpace(line, j2)
    IN  IF j2 > j1 /\ j3 <= Len(line) /\ IsLetter(line[j3])
        THEN LET j4 == SkipId(line, j3 + 1)
             IN  [ok |-> SkipSpace(line, j4) > Len(line),
                  op |-> SubSeq(line, j1, j2 - 1),
                  b |-> SubSeq(line, j3, j4 - 1)]
        ELSE [ok |-> FALSE, op |-> <<>>, b |-> <<>>]

\* /^\s*([A-Za-z][\w-]*)\s*([<>=.-]+)\s*([A-Za-z][\w-]*)\s*$/ : the first id is
\* greedy, so it is the longest prefix of its run after which the rest matches
edgeRegex(line) ==
    LET i0 == SkipSpace(line, 1)
        no == [ok |-> FALSE, a |-> <<>>, op |-> <<>>, b |-> <<>>]
    IN  IF i0 > Len(line) \/ ~IsLetter(line[i0]) THEN no
        ELSE LET gs == {g \in (i0 + 1)..SkipId(line, i0 + 1) : EdgeTail(line, g).ok}
             IN  IF gs = {} THEN no
                 ELSE LET g == Max(gs)
                          t == EdgeTail(line, g)
                      IN  [ok |-> TRUE, a |-> SubSeq(line, i0, g - 1),
                           op |-> t.op, b |-> t.b]

\* /-->|==>|-\.|\|/ : the sidebar parser's "skip edges" test
edgeLikeRegex(line) ==
    \/ Includes(line, <<"-", "-", ">">>)
    \/ Includes(line, <<"=", "=", ">">>)
    \/ Includes(line, <<"-", ".">>)
    \/ Includes(line, <<"|">>)

\* idsPart.split(/[\s,]+/).map(s=>s.trim()).filter(Boolean)
IsIdSep(c) == IsSpace(c) \/ c = ","
RECURSIVE SplitIds(_)
SplitIds(s) ==
    IF s = <<>> THEN <<>>
    ELSE IF IsIdSep(s[1]) THEN SplitIds(Tail(s))
    ELSE LET e == Min({j \in 1..(Len(s) + 1) : j = Len(s) + 1 \/ IsIdSep(s[j])})
         IN  <<SubSeq(s, 1, e - 1)>> \o SplitIds(Slice(s, e, Len(s)))

\* the decimal digits of n > 0, for the template string `sg${...}`
RECURSIVE NatToStr(_)
NatToStr(n) ==
    IF n < 10 THEN <<DigitSeq[n + 1]>>
    ELSE NatToStr(n \div 10) \o <<DigitSeq[(n % 10) + 1]>>

\* the leading id token of the header's rest, or sgN (N = subgraphs.length + 1)
ensureSubgraphIdFromHeader(headerRest, nSubgraphs) ==
    LET rest == Trim(headerRest)
    IN  IF rest # <<>> /\ IsLetter(rest[1])
        THEN SubSeq(rest, 1, SkipId(rest, 2) - 1)
        ELSE <<"s", "g">> \o NatToStr(nSubgraphs + 1)

(***************************************************************************)
(* parseDiagram                                                             *)
(*                                                                         *)
(* nodesMap is a Map: a sequence of entries with distinct ids in insertion *)
(* order (set() on a present key overwrites the entry in place).           *)
(* currentSubgraph is a reference to an element of subgraphs: its index,   *)
(* 0 for null.  subgraphId <<>> stands for null.                           *)
(***************************************************************************)
\* Map.prototype.set on a sequence of entries keyed by .id
MapSet(m, entry) ==
    IF \E k \in DOMAIN m : m[k].id = entry.id
    THEN [k \in DOMAIN m |-> IF m[k].id = entry.id THEN entry ELSE m[k]]
    ELSE Append(m, entry)

\* Array.from(map.keys())
MapKeys(m) == [k \in DOMAIN m |-> m[k].id]

\* lines 96-107: the index of the first line after the front matter, and the
\* captured header lines
FrontMatter(lines) ==
    IF lines[1] # <<>> /\ Trim(lines[1]) = FrontMatterMark
    THEN LET close == Min({j \in 2..(Len(lines) + 1) :
                             j = Len(lines) + 1 \/ Trim(lines[j]) = FrontMatterMark})
             last == IF close <= Len(lines) THEN close ELSE Len(lines)
             i == last + 1
         IN  [headerLines |-> SubSeq(lines, 1, last),
              next |-> IF i <= Len(lines) /\ Trim(lines[i]) = <<>> THEN i + 1 ELSE i]
    ELSE [headerLines |-> <<>>, next |-> 1]

\* lines 109-118: the flowchart line and the index of the first line after it
FlowchartLine(lines, from) ==
    LET hits == {j \in from..Len(lines) : flowchartRegex(lines[j])}
    IN  IF hits = {} THEN [flowchartLine |-> <<>>, next |-> Len(lines) + 1]
        ELSE [flowchartLine |-> Trim(lines[Min(hits)]), next |-> Min(hits) + 1]

\* the state of the main loop before its first line (lines 125-132)
EmptyAcc == [subgraphs |-> <<>>, nodesMap |-> <<>>, topNodes |-> <<>>, edges |-> <<>>,
             classDefs |-> <<>>, classAssigns |-> <<>>, currentSubgraph |-> 0]

\* lines 174-181: a node declaration is registered and appended to the current
\* container
DeclareNode(acc, n) ==
    LET node == [id |-> n.id, label |-> n.label, open |-> n.open, close |-> n.close]
        cur == acc.currentSubgraph
        entry == [id |-> n.id, label |-> n.label, open |-> n.open, close |-> n.close,
                  subgraphId |-> IF cur # 0 THEN acc.subgraphs[cur].id ELSE <<>>]
    IN  IF cur # 0
        THEN [acc EXCEPT !.nodesMap = MapSet(@, entry),
                         !.subgraphs[cur].nodes = Append(@, node)]
        ELSE [acc EXCEPT !.nodesMap = MapSet(@, entry),
                         !.topNodes = Append(@, node)]

\* one iteration of the main loop (lines 141-187)
parseLine(acc, line) ==
    IF line = <<>> \/ Trim(line) = <<>> THEN acc
    ELSE IF commentRegex(line) THEN acc
    ELSE IF classDefRegex(line)
         THEN [acc EXCEPT !.classDefs = Append(@, Trim(line))]
    ELSE LET cam == classAssignRegex(line) IN
         IF cam.ok
         THEN LET ids == SplitIds(cam.idsPart)
              IN  IF ids # <<>>
                  THEN [acc EXCEPT !.classAssigns =
                            Append(@, [ids |-> ids, className |-> cam.className])]
                  ELSE acc
    ELSE LET sgHeader == subgraphHeaderRegex(line) IN
         IF sgHeader.ok
         THEN LET sg == [id |-> ensureSubgraphIdFromHeader(sgHeader.rest,
                                                           Len(acc.subgraphs)),
                         headerLine |-> Trim(line), nodes |-> <<>>]
              IN  [acc EXCEPT !.subgraphs = Append(@, sg),
                              !.currentSubgraph = Len(acc.subgraphs) + 1]
    ELSE IF endRegex(line) THEN [acc EXCEPT !.currentSubgraph = 0]
    ELSE LET nodeParsed == parseNodeLine(line) IN
         IF nodeParsed.ok THEN DeclareNode(acc, nodeParsed)
    ELSE LET em == edgeRegex(line) IN
         IF em.ok
         THEN [acc EXCEPT !.edges = Append(@, [a |-> em.a, op |-> em.op, b |-> em.b])]
         ELSE acc

RECURSIVE parseLoop(_, _, _)
parseLoop(lines, i, acc) ==
    IF i > Len(lines) THEN acc
    ELSE parseLoop(lines, i + 1, parseLine(acc, lines[i]))

parseDiagram(mmdText) ==
    LET fm == FrontMatter(mmdText)
        fl == FlowchartLine(mmdText, fm.next)
        acc == parseLoop(mmdText, fl.next, EmptyAcc)
    IN  [headerLines |-> fm.headerLines, flowchartLine |-> fl.flowchartLine,
         subgraphs |-> acc.subgraphs, topNodes |-> acc.topNodes,
         nodesMap |-> acc.nodesMap, edges |-> acc.edges,
         classDefs |-> acc.classDefs, classAssigns |-> acc.classAssigns]

(***************************************************************************)
(* parseNodesFromMMD: the sidebar's node list.  Only the ids are kept: the *)
(* labels feed the sidebar's captions and nothing else.                     *)
(***************************************************************************)
SetAdd(seq, x) == IF x \in Range(seq) THEN seq ELSE Append(seq, x)

RECURSIVE sidebarLoop(_, _, _)
sidebarLoop(lines, i, acc) ==
    IF i > Len(lines) THEN acc
    ELSE LET line == lines[i]
             node == parseNodeLine(line)
         IN  sidebarLoop(lines, i + 1,
                 IF subgraphHeaderRegex(line).ok THEN acc
                 ELSE IF edgeLikeRegex(line) THEN acc
                 ELSE IF node.ok THEN SetAdd(acc, node.id)
                 ELSE acc)

parseNodesFromMMD(mmdText) == sidebarLoop(mmdText, 1, <<>>)

(***************************************************************************)
(* buildFilteredMMD: the output is the sequence of lines pushed to out.    *)
(***************************************************************************)
\* visibleMap.get(id) !== false
isVisible(visibleMap, id) == ~(id \in DOMAIN visibleMap /\ visibleMap[id] = FALSE)

Indent4 == <<" ", " ", " ", " ">>
Indent8 == Indent4 \o Indent4
DefaultFlowchart == <<"f","l","o","w","c","h","a","r","t"," ","T","D">>
EndLine == Indent4 \o <<"e","n","d">>
ClickWord == <<"c","l","i","c","k"," ">>
CallbackWord == <<" ","m","y","C","a","l","l","b","a","c","k">>
ClassWord == <<"c","l","a","s","s"," ">>

RECURSIVE Concat(_)
Concat(seqs) == IF seqs = <<>> THEN <<>> ELSE Head(seqs) \o Concat(Tail(seqs))

\* ids.join(',')
RECURSIVE JoinComma(_)
JoinComma(ids) ==
    IF ids = <<>> THEN <<>>
    ELSE IF Len(ids) = 1 THEN ids[1]
    ELSE ids[1] \o <<",">> \o JoinComma(Tail(ids))

\* `${n.id}${open}${n.label}${close}` with the '[' / ']' fallback
NodeText(n) ==
    n.id \o (IF n.open # <<>> THEN n.open ELSE <<"[">>) \o n.label
         \o (IF n.close # <<>> THEN n.close ELSE <<"]">>)

KeptNodes(visibleMap, ns) == SelectSeq(ns, LAMBDA n : isVisible(visibleMap, n.id))

\* a slip: the block is emitted without the "if (!kept.length) continue"
SubgraphLinesNoElision(sg, visibleMap) ==
    LET kept == KeptNodes(visibleMap, sg.nodes)
    IN  <<Indent4 \o sg.headerLine>>
        \o [k \in DOMAIN kept |-> Indent8 \o NodeText(kept[k])]
        \o <<EndLine, <<>> >>

\* lines 210-221: one subgraph's block, empty when no member is visible
SubgraphLines(sg, visibleMap) ==
    LET kept == KeptNodes(visibleMap, sg.nodes)
    IN  IF kept = <<>> THEN <<>>
        ELSE <<Indent4 \o sg.headerLine>>
             \o [k \in DOMAIN kept |-> Indent8 \o NodeText(kept[k])]
             \o <<EndLine, <<>> >>

\* lines 223-230
TopNodeLines(m, visibleMap) ==
    LET keptTop == KeptNodes(visibleMap, m.topNodes)
    IN  [k \in DOMAIN keptTop |-> Indent4 \o NodeText(keptTop[k])]
        \o (IF keptTop # <<>> THEN << <<>> >> ELSE <<>>)

\* lines 232-239
ClassAssignLine(ca, visibleMap) ==
    LET keptIds == SelectSeq(ca.ids, LAMBDA id : isVisible(visibleMap, id))
    IN  IF keptIds # <<>>
        THEN <<Indent4 \o ClassWord \o JoinComma(keptIds) \o <<" ">> \o ca.className>>
        ELSE <<>>

ClassAssignLines(m, visibleMap) ==
    IF m.classAssigns # <<>>
    THEN Concat([k \in DOMAIN m.classAssigns |->
                    ClassAssignLine(m.classAssigns[k], visibleMap)]) \o << <<>> >>
    ELSE <<>>

\* lines 241-246
ClickLines(m, visibleMap) ==
    LET visibleIds == SelectSeq(MapKeys(m.nodesMap), LAMBDA id : isVisible(visibleMap, id))
    IN  [k \in DOMAIN visibleIds |-> Indent4 \o ClickWord \o visibleIds[k] \o CallbackWord]
        \o (IF visibleIds # <<>> THEN << <<>> >> ELSE <<>>)

\* a slip: an edge is kept as soon as one of its ends is visible
EdgeKeptEitherEnd(visibleMap, e) == isVisible(visibleMap, e.a) \/ isVisible(visibleMap, e.b)

\* lines 248-253
EdgeKept(visibleMap, e) == isVisible(visibleMap, e.a) /\ isVisible(visibleMap, e.b)

EdgeLines(m, visibleMap) ==
    LET keptEdges == SelectSeq(m.edges, LAMBDA e : EdgeKept(visibleMap, e))
    IN  [k \in DOMAIN keptEdges |->
            Indent4 \o keptEdges[k].a \o <<" ">> \o keptEdges[k].op
                    \o <<" ">> \o keptEdges[k].b]

buildFilteredMMD(m, visibleMap) ==
    (IF m.headerLines # <<>> THEN m.headerLines \o << <<>> >> ELSE <<>>)
    \o <<IF m.flowchartLine # <<>> THEN m.flowchartLine ELSE DefaultFlowchart>>
    \o (IF m.classDefs # <<>>
        THEN [k \in DOMAIN m.classDefs |-> Indent4 \o m.classDefs[k]] \o << <<>> >>
        ELSE <<>>)
    \o Concat([k \in DOMAIN m.subgraphs |-> SubgraphLines(m.subgraphs[k], visibleMap)])
    \o TopNodeLines(m, visibleMap)
    \o ClassAssignLines(m, visibleMap)
    \o ClickLines(m, visibleMap)
    \o EdgeLines(m, visibleMap)
    \o << <<>> >>

(***************************************************************************)
(* main: the adjacency maps and bfs.  A Map of Sets is a function from its *)
(* keys to insertion-ordered sequences without repetition.                 *)
(***************************************************************************)
\* function ensure(map, key)
ensure(map, key) == IF key \in DOMAIN map THEN map ELSE map @@ (key :> <<>>)

\* ensure(map, from).add(to)
AddArc(map, from, to) ==
    LET m1 == ensure(map, from) IN [m1 EXCEPT ![from] = SetAdd(@, to)]

\* op.includes('>') / op.includes('<')
HasForward(op) == Includes(op, <<">">>)
HasBackward(op) == Includes(op, <<"<">>)

\* line 269: every registry id gets an empty set in both maps
RECURSIVE EnsureAll(_, _)
EnsureAll(map, ids) ==
    IF ids = <<>> THEN map ELSE EnsureAll(ensure(map, Head(ids)), Tail(ids))

\* lines 270-280, the out map
RECURSIVE BuildOut(_, _)
BuildOut(map, edges) ==
    IF edges = <<>> THEN map
    ELSE LET e == Head(edges)
             m1 == IF HasForward(e.op) THEN AddArc(map, e.a, e.b) ELSE map
             m2 == IF HasBackward(e.op) THEN AddArc(m1, e.b, e.a) ELSE m1
         IN  BuildOut(m2, Tail(edges))

\* a slip: the inn map forgets the arcs of '<'
RECURSIVE BuildInnForwardOnly(_, _)
BuildInnForwardOnly(map, edges) ==
    IF edges = <<>> THEN map
    ELSE LET e == Head(edges)
             m1 == IF HasForward(e.op) THEN AddArc(map, e.b, e.a) ELSE map
         IN  BuildInnForwardOnly(m1, Tail(edges))

\* lines 270-280, the inn map
RECURSIVE BuildInn(_, _)
BuildInn(map, edges) ==
    IF edges = <<>> THEN map
    ELSE LET e == Head(edges)
             m1 == IF HasForward(e.op) THEN AddArc(map, e.b, e.a) ELSE map
             m2 == IF HasBackward(e.op) THEN AddArc(m1, e.a, e.b) ELSE m1
         IN  BuildInn(m2, Tail(edges))

EmptyMap == [k \in {} |-> <<>>]
OutOf(m) == BuildOut(EnsureAll(EmptyMap, MapKeys(m.nodesMap)), m.edges)
InnOf(m) == BuildInn(EnsureAll(EmptyMap, MapKeys(m.nodesMap)), m.edges)

\* map.get(cur) || new Set()
Nexts(map, cur) == IF cur \in DOMAIN map THEN map[cur] ELSE <<>>

\* the for loop of lines 289-291 over nexts: b is [q, visited, pushed]
RECURSIVE VisitNexts(_, _)
VisitNexts(b, nexts) ==
    IF nexts = <<>> THEN b
    ELSE LET nx == Head(nexts)
         IN  VisitNexts(IF nx \notin Range(b.visited)
                        THEN [q |-> Append(b.q, nx), visited |-> Append(b.visited, nx),
                              pushed |-> Append(b.pushed, nx)]
                        ELSE b,
                        Tail(nexts))

\* one iteration of while (q.length): q.shift() and the for loop
BfsIter(b, map) ==
    VisitNexts([q |-> Tail(b.q), visited |-> b.visited, pushed |-> b.pushed],
               Nexts(map, Head(b.q)))

RECURSIVE BfsLoop(_, _)
BfsLoop(b, map) == IF b.q = <<>> THEN b.visited ELSE BfsLoop(BfsIter(b, map), map)

\* function bfs(startId, map): the visited Set in insertion order
bfs(startId, map) ==
    BfsLoop([q |-> <<startId>>, visited |-> <<startId>>, pushed |-> <<startId>>], map)

(***************************************************************************)
(* The visibility state (a Map id -> boolean) and the sidebar handlers.    *)
(* A handler runs to its await without interleaving: it mutates state,     *)
(* syncs the checkboxes and, inside rerender, assigns the filtered text to *)
(* diagramEl.textContent and calls mermaid.run(), whose promise is settled *)
(* later by RunSettles.                                                     *)
(***************************************************************************)
\* state.set(id, value)
StateSet(s, id, value) ==
    [k \in DOMAIN s \cup {id} |-> IF k = id THEN value ELSE s[k]]

\* for (const id of state.keys()) state.set(id, value)
SetAllKeys(s, value) == [k \in DOMAIN s |-> value]

\* a slip: the closure replaces the visible set instead of joining it
ShowSetOnly(s, visibleSet) ==
    [k \in DOMAIN s \cup Range(visibleSet) |-> k \in Range(visibleSet)]

\* for (const vid of visibleSet) state.set(vid, true)
ShowSet(s, visibleSet) ==
    [k \in DOMAIN s \cup Range(visibleSet) |->
        IF k \in Range(visibleSet) THEN TRUE ELSE s[k]]

\* cb.checked = value for every id of ids that has a checkbox
SyncBoxes(boxes, ids, value) ==
    [k \in DOMAIN boxes |-> IF k \in ids THEN value ELSE boxes[k]]

\* new Map(nodes.map(n => [n.id, true]))
InitialState(ns) == [k \in Range(ns) |-> TRUE]

\* diagramEl.textContent = buildFilteredMMD(model, state), read by mermaid.run()
RenderedText(m, s) == buildFilteredMMD(m, s)

\* a slip: a render is skipped while an earlier run is pending (debouncing)
rerenderDebounced(s) ==
    /\ handed' = IF pending > 0 THEN handed ELSE RenderedText(model, s)
    /\ pending' = pending + 1

\* const rerender = async () => {...}: the text is handed over, a run is pending
rerender(s) ==
    /\ handed' = RenderedText(model, s)
    /\ pending' = pending + 1

(***************************************************************************)
(* The diagram texts a viewing session starts from.                        *)
(***************************************************************************)
\* the chain A --> B --> C with its three nodes declared
D_chain == <<
    <<"f","l","o","w","c","h","a","r","t"," ","T","D">>,
    <<"A","[","a","]">>,
    <<"B","[","b","]">>,
    <<"C","[","c","]">>,
    <<"A"," ","-","-",">"," ","B">>,
    <<"B"," ","-","-",">"," ","C">> >>

\* the same chain with only C declared: A and B are dangling edge endpoints
D_chainC == <<
    <<"f","l","o","w","c","h","a","r","t"," ","T","D">>,
    <<"C","[","c","]">>,
    <<"A"," ","-","-",">"," ","B">>,
    <<"B"," ","-","-",">"," ","C">> >>

\* one edge between two ids that are never declared
D_dangling == <<
    <<"f","l","o","w","c","h","a","r","t"," ","T","D">>,
    <<"X"," ","-","-",">"," ","Y">> >>

\* front matter, two subgraphs, class directives, a bidirectional and an undirected edge
D_groups == <<
    <<"-","-","-">>,
    <<"t","i","t","l","e",":"," ","t">>,
    <<"-","-","-">>,
    <<"f","l","o","w","c","h","a","r","t"," ","L","R">>,
    <<"c","l","a","s","s","D","e","f"," ","h","o","t"," ","f","i","l","l",":","r","e","d">>,
    <<"s","u","b","g","r","a","p","h"," ","S","1">>,
    <<"A","[","a","]">>,
    <<"B","(","(","b",")",")">>,
    <<"e","n","d">>,
    <<"s","u","b","g","r","a","p","h"," ","S","2">>,
    <<"C","[","(","c",")","]">>,
    <<"e","n","d">>,
    <<"c","l","a","s","s"," ","A",",","C"," ","h","o","t">>,
    <<"A"," ","<","-","-",">"," ","C">>,
    <<"B"," ","-","-","-"," ","C">> >>

\* a node whose label holds a | character
D_pipe == <<
    <<"f","l","o","w","c","h","a","r","t"," ","T","D">>,
    <<"A","[","a","|","b","]">>,
    <<"B","[","b","]">>,
    <<"A"," ","-","-",">"," ","B">> >>

\* a node declared in a subgraph and again at top level
D_dup == <<
    <<"f","l","o","w","c","h","a","r","t"," ","T","D">>,
    <<"s","u","b","g","r","a","p","h"," ","S","1">>,
    <<"A","[","a","]">>,
    <<"e","n","d">>,
    <<"A","(","b",")">>,
    <<"B","[","b","]">>,
    <<"B"," ","<","-","-"," ","A">> >>

\* a cycle
D_cycle == <<
    <<"f","l","o","w","c","h","a","r","t"," ","T","D">>,
    <<"A","[","a","]">>,
    <<"B","[","b","]">>,
    <<"A"," ","-","-",">"," ","B">>,
    <<"B"," ","-","-",">"," ","A">> >>

\* the chain written without spaces around its arrows, its three nodes declared
D_tightChain == <<
    <<"f","l","o","w","c","h","a","r","t"," ","T","D">>,
    <<"A","[","a","]">>,
    <<"B","[","b","]">>,
    <<"C","[","c","]">>,
    <<"A","-","-",">","B">>,
    <<"B","-","-",">","C">> >>

Diagrams == {D_chain, D_chainC, D_dangling, D_groups, D_pipe, D_dup, D_cycle, D_tightChain}

\* the largest number of mermaid.run() calls the model lets be pending
MaxPending == 2

IdleParse == [pc |-> "idle", rendered |-> <<>>, model2 |-> <<>>]
IdleBfs == [map |-> "none", q |-> <<>>, visited |-> <<>>, enq |-> <<>>, pops |-> 0,
            start |-> <<>>]

ParseIdle ==
    /\ pc = IdleParse.pc /\ rendered = IdleParse.rendered /\ model2 = IdleParse.model2
BfsIdle ==
    /\ bmap = IdleBfs.map /\ bq = IdleBfs.q /\ bvisited = IdleBfs.visited
    /\ benq = IdleBfs.enq /\ bpops = IdleBfs.pops /\ bstart = IdleBfs.start

parseVars == <<pc, rendered, model2>>
bfsVars == <<bmap, bq, bvisited, benq, bpops, bstart>>
mainVars == <<text, model, nodes, out, inn>>

\* main() up to buildSidebar: the model, the sidebar list, the adjacency maps,
\* the all-visible state, the checked boxes and the awaited initial render
Loaded(diagramText) ==
    /\ text = diagramText
    /\ model = parseDiagram(diagramText)
    /\ nodes = parseNodesFromMMD(diagramText)
    /\ out = OutOf(model)
    /\ inn = InnOf(model)
    /\ state = InitialState(nodes)
    /\ cb = [k \in Range(nodes) |-> TRUE]
    /\ handed = RenderedText(model, state)
    /\ pending = 0

Init ==
    /\ \E diagramText \in Diagrams : Loaded(diagramText)
    /\ ParseIdle
    /\ BfsIdle

\* cb.addEventListener('change', () => onToggle(id, cb.checked))
onToggle(id) ==
    /\ pending < MaxPending
    /\ cb' = [cb EXCEPT ![id] = ~cb[id]]
    /\ state' = StateSet(state, id, cb'[id])
    /\ rerender(state')
    /\ UNCHANGED <<mainVars, parseVars, bfsVars>>

onShowAll ==
    /\ pending < MaxPending
    /\ state' = SetAllKeys(state, TRUE)
    /\ cb' = SyncBoxes(cb, DOMAIN state', TRUE)
    /\ rerender(state')
    /\ UNCHANGED <<mainVars, parseVars, bfsVars>>

onHideAll ==
    /\ pending < MaxPending
    /\ state' = SetAllKeys(state, FALSE)
    /\ cb' = SyncBoxes(cb, DOMAIN state', FALSE)
    /\ rerender(state')
    /\ UNCHANGED <<mainVars, parseVars, bfsVars>>

onShowDescendants(id) ==
    /\ pending < MaxPending
    /\ LET visibleSet == bfs(id, out)
       IN  /\ state' = ShowSet(state, visibleSet)
           /\ cb' = SyncBoxes(cb, Range(visibleSet), TRUE)
    /\ rerender(state')
    /\ UNCHANGED <<mainVars, parseVars, bfsVars>>

onShowAncestors(id) ==
    /\ pending < MaxPending
    /\ LET visibleSet == bfs(id, inn)
       IN  /\ state' = ShowSet(state, visibleSet)
           /\ cb' = SyncBoxes(cb, Range(visibleSet), TRUE)
    /\ rerender(state')
    /\ UNCHANGED <<mainVars, parseVars, bfsVars>>

\* the promise of a pending mermaid.run() settles; nothing follows the await
RunSettles ==
    /\ pending > 0
    /\ pending' = pending - 1
    /\ UNCHANGED <<mainVars, state, cb, handed, parseVars, bfsVars>>

Next ==
    \/ \E id \in Range(nodes) : onToggle(id)
    \/ onShowAll
    \/ onHideAll
    \/ \E id \in Range(nodes) : onShowDescendants(id)
    \/ \E id \in Range(nodes) : onShowAncestors(id)
    \/ RunSettles

Spec == Init /\ [][Next]_vars

(***************************************************************************)
(* Reading a rendered text back: the ids it mentions, by position.         *)
(***************************************************************************)
ID_A == <<"A">>
ID_B == <<"B">>
ID_C == <<"C">>

RegistryIds(m) == Range(MapKeys(m.nodesMap))
EdgeIds(m) == {m.edges[k].a : k \in DOMAIN m.edges} \cup {m.edges[k].b : k \in DOMAIN m.edges}
KnownIds == RegistryIds(model) \cup EdgeIds(model) \cup Range(nodes)
DanglingIds == EdgeIds(model) \ RegistryIds(model)

\* the ids that are visible, among all ids of the session
VisibleSet(s) == {id \in KnownIds \cup DOMAIN s : isVisible(s, id)}

\* the lines of a rendered text after its front-matter block
BodyOf(m, txt) ==
    IF m.headerLines # <<>> THEN Slice(txt, Len(m.headerLines) + 2, Len(txt)) ELSE txt

\* the ids declared as subgraph members or top-level nodes of a parsed text
DeclaredIds(m) ==
    {m.topNodes[k].id : k \in DOMAIN m.topNodes}
    \cup UNION {{m.subgraphs[j].nodes[k].id : k \in DOMAIN m.subgraphs[j].nodes} :
                    j \in DOMAIN m.subgraphs}

ClassAssignIds(m) == UNION {Range(m.classAssigns[k].ids) : k \in DOMAIN m.classAssigns}

\* the id of a line "click <id> myCallback", as a set
ClickIdOf(line) ==
    LET t == Trim(line)
    IN  IF StartsWith(t, ClickWord) /\ EndsWith(t, CallbackWord)
           /\ Len(t) > Len(ClickWord) + Len(CallbackWord)
        THEN {SubSeq(t, Len(ClickWord) + 1, Len(t) - Len(CallbackWord))}
        ELSE {}

ClickIds(lines) == UNION {ClickIdOf(lines[k]) : k \in DOMAIN lines}

\* the endpoints of every line that reads as an edge
EdgeLineIds(lines) ==
    UNION {LET em == edgeRegex(lines[k]) IN IF em.ok THEN {em.a, em.b} ELSE {} :
              k \in DOMAIN lines}

\* every id a rendered text mentions as a node declaration, in a class
\* assignment, in a click directive or as an endpoint of an edge
MentionedIds(txt) ==
    LET m2 == parseDiagram(txt)
        body == BodyOf(m2, txt)
    IN  DeclaredIds(m2) \cup ClassAssignIds(m2) \cup EdgeIds(m2)
        \cup ClickIds(body) \cup EdgeLineIds(body)

SomeHidden == \E id \in KnownIds : ~isVisible(state, id)

(***************************************************************************)
(* C1: the rendered text never mentions an id whose visibility is false:   *)
(* not as a subgraph member or top-level node, not in a class assignment,  *)
(* not in a click directive, not as an endpoint of an emitted edge.        *)
(***************************************************************************)
C1_NoHiddenIdMentioned ==
    \A id \in MentionedIds(RenderedText(model, state)) : isVisible(state, id)

\* an edge of the model has a hidden declared endpoint while its other endpoint
\* and some class-assigned id are still visible, and the text was rendered
C1_Witness ==
    /\ pending > 0
    /\ \E k \in DOMAIN model.edges :
          /\ model.edges[k].b \in RegistryIds(model)
          /\ ~isVisible(state, model.edges[k].b)
          /\ isVisible(state, model.edges[k].a)
    /\ \E id \in ClassAssignIds(model) : ~isVisible(state, id)

(***************************************************************************)
(* C9: a subgraph's header and its closing end are emitted iff one of its  *)
(* members is visible; between them stand exactly the visible members, in  *)
(* their original order and with their recorded delimiters.                 *)
(***************************************************************************)
HasVisibleMember(sg, s) == \E k \in DOMAIN sg.nodes : isVisible(s, sg.nodes[k].id)

C9_SubgraphElision ==
    LET body == BodyOf(model, RenderedText(model, state))
        idx == [j \in 1..Len(body) |-> j]
        heads == SelectSeq(idx, LAMBDA j : subgraphHeaderRegex(body[j]).ok)
        ends == SelectSeq(idx, LAMBDA j : endRegex(body[j]))
        shown == SelectSeq(model.subgraphs, LAMBDA sg : HasVisibleMember(sg, state))
    IN  /\ Len(heads) = Len(shown)
        /\ Len(ends) = Len(shown)
        /\ \A k \in DOMAIN shown :
              LET members == SelectSeq(shown[k].nodes,
                                       LAMBDA n : isVisible(state, n.id))
              IN  /\ body[heads[k]] = Indent4 \o shown[k].headerLine
                  /\ heads[k] < ends[k]
                  /\ (k < Len(shown) => ends[k] < heads[k + 1])
                  /\ ends[k] - heads[k] - 1 = Len(members)
                  /\ \A i \in DOMAIN members :
                        body[heads[k] + i] =
                            Indent8 \o members[i].id \o members[i].open
                                    \o members[i].label \o members[i].close

\* one subgraph is elided while another is emitted with a member left out
C9_Witness ==
    /\ pending > 0
    /\ \E j \in DOMAIN model.subgraphs : ~HasVisibleMember(model.subgraphs[j], state)
    /\ \E j \in DOMAIN model.subgraphs :
          /\ HasVisibleMember(model.subgraphs[j], state)
          /\ \E k \in DOMAIN model.subgraphs[j].nodes :
                ~isVisible(state, model.subgraphs[j].nodes[k].id)

(***************************************************************************)
(* C10: after every handler the text handed to the external renderer is    *)
(* the rendering of the state as that handler left it, also while earlier  *)
(* mermaid.run() calls are still pending.                                   *)
(***************************************************************************)
C10_HandedIsLatest == handed = buildFilteredMMD(model, state)

\* a handler has fired while an earlier run was pending, and hid something
C10_Witness == pending = MaxPending /\ SomeHidden

(***************************************************************************)
(* C8: showDescendants(id) and showAncestors(id) hide nothing, show the    *)
(* whole closure, leave every id outside it as it was, and no visibility   *)
(* operation changes the parsed model.                                      *)
(***************************************************************************)
ShowFrame(closure) ==
    /\ \A x \in KnownIds : isVisible(state, x) => isVisible(state', x)
    /\ \A x \in closure : isVisible(state', x)
    /\ \A x \in (KnownIds \cup DOMAIN state') \ closure :
          isVisible(state', x) = isVisible(state, x)

C8_ShowOnlyAdds ==
    [][ /\ model' = model
        /\ \A id \in Range(nodes) :
              /\ onShowDescendants(id) => ShowFrame(Range(bfs(id, out)))
              /\ onShowAncestors(id) => ShowFrame(Range(bfs(id, inn))) ]_vars

\* a dangling id has a stored value, which only a closure can give it, while a
\* declared id is hidden
C8_Witness ==
    /\ \E d \in DanglingIds : d \in DOMAIN state /\ state[d]
    /\ \E id \in RegistryIds(model) : ~isVisible(state, id)

(***************************************************************************)
(* C3: in a diagram with the edges A-->B and B-->C, from the state right   *)
(* after hideAll, showDescendants(A) leaves exactly {A,B,C} visible,       *)
(* showDescendants(C) exactly {C}, and showAncestors(C) exactly {C,B,A}.   *)
(***************************************************************************)
ChainDiagrams == {D_chain, D_chainC, D_tightChain}

\* the state a hideAll leaves: every stored value is false
AfterHideAll == \A k \in DOMAIN state : state[k] = FALSE

C3_Chain ==
    [][ (text \in ChainDiagrams /\ AfterHideAll) =>
            /\ (ID_A \in Range(nodes) /\ onShowDescendants(ID_A))
                  => VisibleSet(state') = {ID_A, ID_B, ID_C}
            /\ (ID_C \in Range(nodes) /\ onShowDescendants(ID_C))
                  => VisibleSet(state') = {ID_C}
            /\ (ID_C \in Range(nodes) /\ onShowAncestors(ID_C))
                  => VisibleSet(state') = {ID_C, ID_B, ID_A} ]_vars

(***************************************************************************)
(* C6: right after hideAll every id of the model's registry is invisible   *)
(* and the rendered text holds no node declaration and no click directive; *)
(* right after showAll every id of the registry is visible.                 *)
(***************************************************************************)
C6_OverwriteAll ==
    [][ /\ onHideAll =>
              /\ \A id \in RegistryIds(model) : ~isVisible(state', id)
              /\ DeclaredIds(parseDiagram(handed')) = {}
              /\ ClickIds(handed') = {}
        /\ onShowAll => \A id \in RegistryIds(model) : isVisible(state', id) ]_vars

(***************************************************************************)
(* C7: an edge to an undeclared id is kept by the parser, the id can be    *)
(* traversed from, and after hideAll it is not an endpoint of any emitted  *)
(* edge until an operation sets it visible.                                 *)
(***************************************************************************)
C7_DanglingHidden ==
    [][ /\ \A d \in DanglingIds :
              d \in Range(bfs(d, out)) /\ d \in Range(bfs(d, inn))
        /\ onHideAll =>
              \A d \in DanglingIds : d \notin EdgeLineIds(BodyOf(model, handed')) ]_vars

(***************************************************************************)
(* Inputs of the pure functions: a text is an optional front-matter block, *)
(* a flowchart line and up to MaxFragments fragments.                       *)
(***************************************************************************)
\* a rectangle node
F_node == <<<<"A","[","a","]">>>>
\* a circle node
F_circle == <<<<"B","(","(","b",")",")">>>>
\* a second declaration of A, with an inline comment
F_again == <<<<"A","(","b",")"," ","%","%"," ","a","g","a","i","n">>>>
\* a subgraph with one member
F_subgraph == <<<<"s","u","b","g","r","a","p","h"," ","S","1">>, <<"C","[","(","c",")","]">>, <<"e","n","d">>>>
\* a subgraph opened inside another
F_nested == <<<<"s","u","b","g","r","a","p","h"," ","S","2">>, <<"A","[","a","]">>, <<"s","u","b","g","r","a","p","h">>, <<"B","[","b","]">>, <<"e","n","d">>, <<"C","{","c","}">>, <<"e","n","d">>>>
\* an edge
F_edge == <<<<"A"," ","-","-",">"," ","B">>>>
\* an edge written without spaces
F_tight == <<<<"B","-","-",">","C">>>>
\* an edge between two undeclared ids
F_dangling == <<<<"X"," ","<","-","-",">"," ","Y">>>>
\* class directives
F_class == <<<<"c","l","a","s","s","D","e","f"," ","h","o","t"," ","f","i","l","l",":","r","e","d">>, <<"c","l","a","s","s"," ","A",",","B"," ","h","o","t">>>>
\* an edge whose first id is the word class
F_classEdge == <<<<"c","l","a","s","s","=","=",">","B">>>>
\* a comment, a blank line and a line no rule recognizes
F_skipped == <<<<"%","%"," ","n","o","t","e">>, <<>>, <<"A"," ","-","-",">","|","y","e","s","|"," ","B">>>>

Fragments == {F_node, F_circle, F_again, F_subgraph, F_nested, F_edge, F_tight, F_dangling, F_class, F_classEdge, F_skipped}

FrontMatterBlock == <<<<"-","-","-">>, <<"t","i","t","l","e",":"," ","t">>, <<"-","-","-">>>>
FlowchartTD == <<<<"f","l","o","w","c","h","a","r","t"," ","T","D">>>>

\* the largest number of fragments of an input text
MaxFragments == 2

RECURSIVE FragmentSeqs(_)
FragmentSeqs(n) ==
    IF n = 0 THEN {<<>>}
    ELSE LET shorter == FragmentSeqs(n - 1)
         IN  shorter \cup {Append(fs, f) : fs \in {x \in shorter : Len(x) = n - 1},
                                           f \in Fragments}

ParseInputs ==
    {prefix \o FlowchartTD \o Concat(fs) :
        prefix \in {<<>>, FrontMatterBlock}, fs \in FragmentSeqs(MaxFragments)}

EmptyModel == parseDiagram(<< <<>> >>)

\* parse, render with every id visible, parse again: one step each
InitParse ==
    /\ text \in ParseInputs
    /\ model = EmptyModel /\ nodes = <<>> /\ out = EmptyMap /\ inn = EmptyMap
    /\ state = <<>> /\ cb = <<>> /\ handed = <<>> /\ pending = 0
    /\ pc = "start" /\ rendered = <<>> /\ model2 = EmptyModel
    /\ BfsIdle

DoParse ==
    /\ pc = "start"
    /\ model' = parseDiagram(text)
    /\ nodes' = parseNodesFromMMD(text)
    /\ state' = InitialState(nodes')
    /\ pc' = "parsed"
    /\ UNCHANGED <<text, out, inn, cb, handed, pending, rendered, model2, bfsVars>>

DoRender ==
    /\ pc = "parsed"
    /\ rendered' = buildFilteredMMD(model, state)
    /\ pc' = "rendered"
    /\ UNCHANGED <<mainVars, state, cb, handed, pending, model2, bfsVars>>

DoReparse ==
    /\ pc = "rendered"
    /\ model2' = parseDiagram(rendered)
    /\ pc' = "reparsed"
    /\ UNCHANGED <<mainVars, state, cb, handed, pending, rendered, bfsVars>>

NextParse == DoParse \/ DoRender \/ DoReparse

SpecParse == InitParse /\ [][NextParse]_vars

(***************************************************************************)
(* C2: parsing, rendering with every id visible and parsing again yields   *)
(* the same set of node ids and the same set of edges.                      *)
(***************************************************************************)
EdgeSet(m) == {<<m.edges[k].a, m.edges[k].op, m.edges[k].b>> : k \in DOMAIN m.edges}

C2_RoundTrip ==
    (pc = "reparsed" /\ \A id \in KnownIds : isVisible(state, id)) =>
        /\ RegistryIds(model2) = RegistryIds(model)
        /\ EdgeSet(model2) = EdgeSet(model)

(***************************************************************************)
(* C5: every node id of the parsed model stands in exactly one container,  *)
(* once, and the registry records that container.                           *)
(***************************************************************************)
CountIn(ns, id) == Cardinality({k \in DOMAIN ns : ns[k].id = id})

\* how often id is listed, over the top-level list and all member lists
RECURSIVE SumSeq(_)
SumSeq(ns) == IF ns = <<>> THEN 0 ELSE Head(ns) + SumSeq(Tail(ns))

Listings(m, id) ==
    CountIn(m.topNodes, id)
    + SumSeq([j \in DOMAIN m.subgraphs |-> CountIn(m.subgraphs[j].nodes, id)])

C5_OneContainer ==
    pc = "parsed" =>
        \A k \in DOMAIN model.nodesMap :
            LET entry == model.nodesMap[k]
            IN  /\ Listings(model, entry.id) = 1
                /\ IF entry.subgraphId = <<>>
                   THEN CountIn(model.topNodes, entry.id) = 1
                   ELSE \E j \in DOMAIN model.subgraphs :
                           /\ model.subgraphs[j].id = entry.subgraphId
                           /\ CountIn(model.subgraphs[j].nodes, entry.id) = 1

(***************************************************************************)
(* bfs step by step: one action per iteration of while (q.length).  The    *)
(* diagrams hold a declared node C and up to MaxEdges edge lines.           *)
(***************************************************************************)
ID_Z == <<"Z">>
OpTokens == {<<"-", "-", ">">>, <<"<", "-", "-">>, <<"<", "-", "-", ">">>, <<"-", "-", "-">>}
EdgeEnds == {<<ID_A, ID_B>>, <<ID_B, ID_C>>, <<ID_C, ID_A>>}

\* the line "a op b"
EdgeText(ends, op) == ends[1] \o <<" ">> \o op \o <<" ">> \o ends[2]
EdgeTexts ==
    {EdgeText(ends, op) : ends \in EdgeEnds, op \in OpTokens}
    \cup {EdgeText(<<ID_A, ID_A>>, <<"-", "-", ">">>)}

\* the largest number of edge lines of a diagram
MaxEdges == 3

RECURSIVE EdgeLineSeqs(_)
EdgeLineSeqs(n) ==
    IF n = 0 THEN {<<>>}
    ELSE LET shorter == EdgeLineSeqs(n - 1)
         IN  shorter \cup {Append(ls, l) : ls \in {x \in shorter : Len(x) = n - 1},
                                           l \in EdgeTexts}

BfsDiagrams ==
    {FlowchartTD \o << <<"C", "[", "c", "]">> >> \o ls : ls \in EdgeLineSeqs(MaxEdges)}

BfsStartIds == {ID_A, ID_B, ID_C, ID_Z}

InitBfs ==
    /\ \E diagramText \in BfsDiagrams : Loaded(diagramText)
    /\ ParseIdle
    /\ BfsIdle

MapNamed(name) == IF name = "out" THEN out ELSE inn

\* const visited = new Set(); const q = [startId]; visited.add(startId)
BfsStart(startId, name) ==
    /\ bmap = "none"
    /\ bmap' = name
    /\ bstart' = startId
    /\ bq' = <<startId>>
    /\ bvisited' = <<startId>>
    /\ benq' = <<startId>>
    /\ bpops' = 0
    /\ UNCHANGED <<mainVars, state, cb, handed, pending, parseVars>>

\* one iteration of while (q.length)
BfsStep ==
    /\ bmap # "none"
    /\ bq # <<>>
    /\ LET b == BfsIter([q |-> bq, visited |-> bvisited, pushed |-> benq],
                        MapNamed(bmap))
       IN  /\ bq' = b.q
           /\ bvisited' = b.visited
           /\ benq' = b.pushed
    /\ bpops' = bpops + 1
    /\ UNCHANGED <<mainVars, state, cb, handed, pending, parseVars, bmap, bstart>>

NextBfs ==
    \/ \E startId \in BfsStartIds, name \in {"out", "inn"} : BfsStart(startId, name)
    \/ BfsStep

SpecBfs == InitBfs /\ [][NextBfs]_vars

(***************************************************************************)
(* C4: bfs over the forward (backward) adjacency returns the smallest set  *)
(* that contains the start id and is closed under forward (backward)       *)
(* arcs, an edge a op b giving the arc a->b when op contains '>' and b->a  *)
(* when it contains '<'; no id is enqueued twice, the loop ends within as  *)
(* many iterations as there are ids, and the result is {id} when id has no *)
(* arc in that direction or is unknown.                                     *)
(***************************************************************************)
ForwardArcs ==
    {<<model.edges[k].a, model.edges[k].b>> :
        k \in {j \in DOMAIN model.edges : Includes(model.edges[j].op, <<">">>)}}
    \cup {<<model.edges[k].b, model.edges[k].a>> :
        k \in {j \in DOMAIN model.edges : Includes(model.edges[j].op, <<"<">>)}}

ArcsOf(name) ==
    IF name = "out" THEN ForwardArcs ELSE {<<arc[2], arc[1]>> : arc \in ForwardArcs}

ClosedUnder(S, arcs) == \A arc \in arcs : arc[1] \in S => arc[2] \in S

NoRepeat(seq) == \A i, j \in DOMAIN seq : seq[i] = seq[j] => i = j

C4_BfsIsLeastClosure ==
    bmap # "none" =>
        LET arcs == ArcsOf(bmap)
            universe == KnownIds \cup {bstart}
            V == Range(bvisited)
        IN  /\ NoRepeat(benq)
            /\ bpops <= Cardinality(universe)
            /\ bpops + Len(bq) = Len(benq)
            /\ bq = <<>> =>
                  /\ bstart \in V
                  /\ ClosedUnder(V, arcs)
                  /\ \A T \in SUBSET universe :
                        (bstart \in T /\ ClosedUnder(T, arcs)) => V \subseteq T
                  /\ (\A arc \in arcs : arc[1] # bstart) => V = {bstart}

\* a finished traversal of a cycle that reached another id through a '<' edge
C4_Witness ==
    /\ bmap = "out" /\ bq = <<>> /\ bstart = ID_B
    /\ ID_A \in Range(bvisited)
    /\ <<ID_A, ID_B>> \in ForwardArcs /\ <<ID_B, ID_A>> \in ForwardArcs
    /\ \E k \in DOMAIN model.edges :
          model.edges[k].op = <<"<", "-", "-">> /\ model.edges[k].a = ID_A

====
